---------------------------- MODULE Spec2Model ----------------------------
(***************************************************************************)
(* Model of the nicky-wordtools pipeline stages:                           *)
(*   fill_interstices.py  (parse_mask, expand_elements,                    *)
(*                         generate_separators, fill_interstices)          *)
(*   permute.py           (permute_by_value, both copies)                  *)
(* Strings are sequences of one-character strings.                         *)
(***************************************************************************)
EXTENDS Integers, Sequences, FiniteSets, TLC

(***************************************************************************)
(* Bounds of the model                                                     *)
(***************************************************************************)
\* masks of Spec are concatenations of at most MaxTokens mask tokens
MaxTokens == 4
\* ... holding at most MaxDigitSlots "?d" tokens
MaxDigitSlots == 2
\* masks of SpecParse are strings of at most MaxMaskLen characters
MaxMaskLen == 5
\* fill_interstices is given at most MaxMasks masks and MaxLines lines
MaxMasks == 2
MaxLines == 2
\* permute_by_value is given at most MaxPermLines lines
MaxPermLines == 3

(***************************************************************************)
(* Generic helpers on sequences                                            *)
(***************************************************************************)
\* s[a..b] with Python slice semantics on 0-based half-open [a, b)
Slice(s, a, b) == IF b <= a THEN <<>> ELSE SubSeq(s, a + 1, b)

\* s[::-1]
Reverse(s) == [i \in 1..Len(s) |-> s[Len(s) + 1 - i]]

RECURSIVE FlattenRange(_, _, _)
\* ss[lo] \o ... \o ss[hi], by halving
FlattenRange(ss, lo, hi) ==
    IF lo > hi THEN <<>>
    ELSE IF lo = hi THEN ss[lo]
    ELSE LET mid == (lo + hi) \div 2
         IN FlattenRange(ss, lo, mid) \o FlattenRange(ss, mid + 1, hi)

\* concatenation of a sequence of sequences
Flatten(ss) == FlattenRange(ss, 1, Len(ss))

RECURSIVE Pow10(_)
Pow10(k) == IF k = 0 THEN 1 ELSE 10 * Pow10(k - 1)

(***************************************************************************)
(* fill_interstices.py : symbol table                                      *)
(***************************************************************************)
\* map(str, range(10)): the digit characters in ascending order
DigitChars == <<"0", "1", "2", "3", "4", "5", "6", "7", "8", "9">>

\* _SHIFT_MAP, indexed by digit character
SHIFT_MAP(d) ==
    CASE d = "1" -> "!" [] d = "2" -> "@" [] d = "3" -> "#" [] d = "4" -> "$"
      [] d = "5" -> "%" [] d = "6" -> "^" [] d = "7" -> "&" [] d = "8" -> "*"
      [] d = "9" -> "(" [] d = "0" -> ")"

(***************************************************************************)
(* fill_interstices.py : AST elements                                      *)
(***************************************************************************)
ElemD == [typ |-> "d", ch |-> "", sub |-> <<>>, rev |-> FALSE]
ElemCaret == [typ |-> "caret", ch |-> "", sub |-> <<>>, rev |-> FALSE]
ElemLit(c) == [typ |-> "lit", ch |-> c, sub |-> <<>>, rev |-> FALSE]
ElemGroup(sub, rev) == [typ |-> "group", ch |-> "", sub |-> sub, rev |-> rev]

(***************************************************************************)
(* fill_interstices.py : parse_mask                                        *)
(***************************************************************************)
\* mask.startswith(two-character marker, i), i 0-based
StartsWith2(mask, c1, c2, i) ==
    i + 2 <= Len(mask) /\ mask[i + 1] = c1 /\ mask[i + 2] = c2

RECURSIVE ScanGroupFlat(_, _, _)
\* mutant: the scan does not count nested '{'
ScanGroupFlat(mask, j, depth) ==
    IF j < Len(mask) /\ depth # 0
    THEN ScanGroupFlat(mask, j + 1,
                       IF mask[j + 1] = "}" THEN depth - 1 ELSE depth)
    ELSE [j |-> j, depth |-> depth]

RECURSIVE ScanGroupShortBound(_, _, _)
\* mutant: the scan stops one character early ("while j < n - 1")
ScanGroupShortBound(mask, j, depth) ==
    IF j < Len(mask) - 1 /\ depth # 0
    THEN ScanGroupShortBound(mask, j + 1,
                             IF mask[j + 1] = "{" THEN depth + 1
                             ELSE IF mask[j + 1] = "}" THEN depth - 1
                             ELSE depth)
    ELSE [j |-> j, depth |-> depth]

RECURSIVE ScanGroup(_, _, _)
\* the inner "while j < n and depth" loop; returns the final j and depth
ScanGroup(mask, j, depth) ==
    IF j < Len(mask) /\ depth # 0
    THEN ScanGroup(mask, j + 1,
                   IF mask[j + 1] = "{" THEN depth + 1
                   ELSE IF mask[j + 1] = "}" THEN depth - 1
                   ELSE depth)
    ELSE [j |-> j, depth |-> depth]

\* raise ValueError(f"Unmatched '{{' in mask: {mask}"): the exception
\* carries the text of the mask the raising call was given
ParseError(mask) == [ok |-> FALSE, elems |-> <<>>, err |-> mask]

RECURSIVE ParseLoop(_, _, _)
\* the outer "while i < n" loop of parse_mask, from index i with the
\* elements collected so far; a raised ValueError is a ParseError, and
\* one raised by the recursive call on a group's content propagates
ParseLoop(mask, i, elements) ==
    IF i >= Len(mask) THEN [ok |-> TRUE, elems |-> elements, err |-> <<>>]
    ELSE IF StartsWith2(mask, "?", "d", i)
         THEN ParseLoop(mask, i + 2, Append(elements, ElemD))
    ELSE IF StartsWith2(mask, "?", "^", i)
         THEN ParseLoop(mask, i + 2, Append(elements, ElemCaret))
    ELSE IF mask[i + 1] = "{"
         THEN LET sc == ScanGroup(mask, i + 1, 1) IN
              IF sc.depth # 0 THEN ParseError(mask)
              ELSE LET content == Slice(mask, i + 1, sc.j - 1)
                       reverse == sc.j < Len(mask) /\ mask[sc.j + 1] = "-"
                       j2 == IF reverse THEN sc.j + 1 ELSE sc.j
                       sub == ParseLoop(content, 0, <<>>)
                   IN IF ~sub.ok THEN sub
                      ELSE ParseLoop(mask, j2,
                                     Append(elements, ElemGroup(sub.elems, reverse)))
    ELSE ParseLoop(mask, i + 1, Append(elements, ElemLit(mask[i + 1])))

parse_mask(mask) == ParseLoop(mask, 0, <<>>)

(***************************************************************************)
(* fill_interstices.py : State and expand_elements                         *)
(***************************************************************************)
\* State(): empty digit queue, next reference index 0
State0 == [digits |-> <<>>, next_ref |-> 0]

\* An uncaught IndexError leaves no State behind: a partial result carrying
\* IndexErrorState stands for "this step raised", and ends the expansion.
IndexErrorState == [digits |-> <<>>, next_ref |-> -1]

Raised(results) == \E k \in 1..Len(results) : results[k].st = IndexErrorState

\* mutant: the two loops swapped (digits outermost)
StepDigitDigitsOutermost(results) ==
    [k \in 1..(10 * Len(results)) |->
        LET e == results[((k - 1) % Len(results)) + 1]
            d == DigitChars[((k - 1) \div Len(results)) + 1]
        IN [out |-> Append(e.out, d),
            st |-> [e.st EXCEPT !.digits = Append(@, d)]]]

\* for typ == 'd': every partial result branches on the ten digits
StepDigit(results) ==
    [k \in 1..(10 * Len(results)) |->
        LET e == results[((k - 1) \div 10) + 1]
            d == DigitChars[((k - 1) % 10) + 1]
        IN [out |-> Append(e.out, d),
            st |-> [e.st EXCEPT !.digits = Append(@, d)]]]

\* mutant: the test written with > instead of >=
CaretPrunedOffByOne(st) == st.next_ref > Len(st.digits)

\* mutant: a branch whose referenced digit is "0" is dropped too
CaretPrunedOnZero(st) ==
    st.next_ref >= Len(st.digits) \/ st.digits[st.next_ref + 1] = "0"

\* the caret test "st.next_ref >= len(st.digits)": the branch is dropped
CaretPruned(st) == st.next_ref >= Len(st.digits)

\* mutant: the most recent digit instead of the earliest unreferenced one
CaretIndexLatest(st) == Len(st.digits) - 1

\* the index a caret reads the digit queue at: st.next_ref
CaretIndex(st) == st.next_ref

\* d = st.digits[st.next_ref]; sym = _SHIFT_MAP[d]; st2.next_ref += 1.
\* Indexing a list outside 0..len-1 raises IndexError (a negative index
\* counts from the end; next_ref is never negative).
CaretChild(e) ==
    LET i == CaretIndex(e.st) IN
    IF i >= 0 /\ i < Len(e.st.digits)
    THEN [out |-> Append(e.out, SHIFT_MAP(e.st.digits[i + 1])),
          st |-> [e.st EXCEPT !.next_ref = @ + 1]]
    ELSE [out |-> e.out, st |-> IndexErrorState]

\* what a caret does with one partial result: no child ("continue") or one
CaretChildren(e) == IF CaretPruned(e.st) THEN <<>> ELSE <<CaretChild(e)>>

\* for typ == 'caret'
StepCaret(results) ==
    Flatten([k \in 1..Len(results) |-> CaretChildren(results[k])])

\* for typ == 'lit'
StepLit(lit, results) ==
    [k \in 1..Len(results) |->
        [out |-> Append(results[k].out, lit), st |-> results[k].st]]

\* mutant: the group's state changes are dropped
GroupChildStateDropped(st, st2) == st

\* the state a group child carries on: st2, the state the group's
\* expansion returned
GroupChildState(st, st2) == st2

\* the children of one partial result (out, st) for a group whose content
\* expanded to grp_exp
GroupChildren(e, grp_exp, rev) ==
    [k \in 1..Len(grp_exp) |->
        [out |-> e.out \o (IF rev THEN Reverse(grp_exp[k].out) ELSE grp_exp[k].out),
         st |-> GroupChildState(e.st, grp_exp[k].st)]]

RECURSIVE expand_elements(_, _)
RECURSIVE ExpandLoop(_, _, _)

\* for typ == 'group'
StepGroup(sub_elems, rev, results) ==
    Flatten([k \in 1..Len(results) |->
                GroupChildren(results[k],
                              expand_elements(sub_elems, results[k].st), rev)])

\* one iteration of "for el in elems": the new worklist
ExpandStep(el, results) ==
    CASE el.typ = "d" -> StepDigit(results)
      [] el.typ = "caret" -> StepCaret(results)
      [] el.typ = "group" -> StepGroup(el.sub, el.rev, results)
      [] el.typ = "lit" -> StepLit(el.ch, results)

\* "for el in elems" from element index i (1-based)
ExpandLoop(elems, i, results) ==
    IF i > Len(elems) \/ Raised(results) THEN results
    ELSE ExpandLoop(elems, i + 1, ExpandStep(elems[i], results))

expand_elements(elems, state) ==
    ExpandLoop(elems, 1, <<[out |-> <<>>, st |-> state]>>)

\* [out for out, _ in exps]
Outs(exps) == [k \in 1..Len(exps) |-> exps[k].out]

\* generate_separators: the separators, or ParseError's ok = FALSE when
\* parse_mask raised
generate_separators(mask) ==
    LET p == parse_mask(mask) IN
    IF ~p.ok THEN [ok |-> FALSE, seps |-> <<>>]
    ELSE LET exps == expand_elements(p.elems, State0) IN
         IF Raised(exps) THEN [ok |-> FALSE, seps |-> <<>>]
         ELSE [ok |-> TRUE, seps |-> Outs(exps)]

(***************************************************************************)
(* fill_interstices.py : fill_interstices                                  *)
(***************************************************************************)
\* the characters str.strip() and str.split() treat as whitespace
IsSpace(c) == c \in {" ", "\t", "\n"}

RECURSIVE Strip(_)
\* raw.strip()
Strip(raw) ==
    IF raw = <<>> THEN raw
    ELSE IF IsSpace(Head(raw)) THEN Strip(Tail(raw))
    ELSE IF IsSpace(raw[Len(raw)]) THEN Strip(SubSeq(raw, 1, Len(raw) - 1))
    ELSE raw

RECURSIVE SplitLoop(_, _, _, _)
\* str.split() without arguments, scanning from character i: cur is the
\* word being read, parts the words completed
SplitLoop(text, i, cur, parts) ==
    IF i > Len(text)
    THEN IF cur = <<>> THEN parts ELSE Append(parts, cur)
    ELSE IF IsSpace(text[i])
         THEN SplitLoop(text, i + 1, <<>>,
                        IF cur = <<>> THEN parts ELSE Append(parts, cur))
    ELSE SplitLoop(text, i + 1, Append(cur, text[i]), parts)

Split(text) == SplitLoop(text, 1, <<>>, <<>>)

\* mutant: "if len(parts) < 2: continue"
LineSkippedIfShort(parts) == Len(parts) < 2

\* "if len(parts) != 2: continue"
LineSkipped(parts) == Len(parts) # 2

\* cache[mask] = seps
CachePut(cache, mask, separators) ==
    [m \in (DOMAIN cache) \cup {mask} |->
        IF m = mask THEN separators ELSE cache[m]]

\* "for mask in masks: for sep in cache[mask]: yield f"{w1}{sep}{w2}""
LineOutputs(w1, w2, masks, cache) ==
    Flatten([k \in 1..Len(masks) |->
                [j \in 1..Len(cache[masks[k]]) |->
                    w1 \o cache[masks[k]][j] \o w2]])

(***************************************************************************)
(* permute.py : numbers                                                    *)
(***************************************************************************)
\* A weight is a decimal number num/den, den a power of ten, kept in
\* lowest decimal form; None is the absent weight.
RECURSIVE Norm(_)
Norm(x) ==
    IF x.den > 1 /\ x.num % 10 = 0
    THEN Norm([num |-> x.num \div 10, den |-> x.den \div 10])
    ELSE x

Number(num, den) == [none |-> FALSE] @@ Norm([num |-> num, den |-> den])
None == [none |-> TRUE, num |-> 0, den |-> 1]

\* wt1 + wt2
Add(a, b) == Number(a.num * b.den + b.num * a.den, a.den * b.den)

\* a < b
Less(a, b) == a.num * b.den < b.num * a.den

IsDigit(c) == \E i \in DOMAIN DigitChars : DigitChars[i] = c
DigitValue(c) == (CHOOSE i \in DOMAIN DigitChars : DigitChars[i] = c) - 1

RECURSIVE DecimalValue(_)
\* the value of a string of decimal digits ("" is 0)
DecimalValue(ds) ==
    IF ds = <<>> THEN 0
    ELSE 10 * DecimalValue(SubSeq(ds, 1, Len(ds) - 1)) + DigitValue(ds[Len(ds)])

HasSign(tok) == tok # <<>> /\ tok[1] \in {"+", "-"}
Unsigned(tok) == IF HasSign(tok) THEN Tail(tok) ELSE tok
Signed(tok, n) == IF HasSign(tok) /\ tok[1] = "-" THEN 0 - n ELSE n

\* float(w_str) on strings of signs, digits, '.' and letters that spell no
\* float literal: [ok, val], ok = FALSE for ValueError.  Accepted:
\* [+-] digits [. digits] with at least one digit.
ParseFloat(tok) ==
    LET body == Unsigned(tok)
        dots == {i \in DOMAIN body : body[i] = "."}
        digits == SelectSeq(body, IsDigit)
        wellformed == /\ \A i \in DOMAIN body : IsDigit(body[i]) \/ body[i] = "."
                      /\ Cardinality(dots) <= 1
                      /\ digits # <<>>
        frac == IF dots = {} THEN 0 ELSE Len(body) - (CHOOSE i \in dots : TRUE)
    IN IF wellformed
       THEN [ok |-> TRUE, val |-> Number(Signed(tok, DecimalValue(digits)), Pow10(frac))]
       ELSE [ok |-> FALSE, val |-> None]

\* int(parts[-1]) on the same strings: [+-] digits
ParseInt(tok) ==
    LET body == Unsigned(tok) IN
    IF body # <<>> /\ \A i \in DOMAIN body : IsDigit(body[i])
    THEN [ok |-> TRUE, val |-> Number(Signed(tok, DecimalValue(body)), 1)]
    ELSE [ok |-> FALSE, val |-> None]

(***************************************************************************)
(* permute.py : permute_by_value                                           *)
(***************************************************************************)
RECURSIVE Join(_)
\* " ".join(words)
Join(words) ==
    IF words = <<>> THEN <<>>
    ELSE IF Len(words) = 1 THEN words[1]
    ELSE words[1] \o <<" ">> \o Join(Tail(words))

\* parts[:-1]
AllButLast(parts) == SubSeq(parts, 1, Len(parts) - 1)

\* nicky-wordtools/permute.py, the loop body for a non-blank line: the
\* entry appended, and whether the line switches to unweighted mode
ReadEntry(line) ==
    LET parts == Split(line) IN
    IF Len(parts) < 2
    THEN [entry |-> [word |-> parts[1], wt |-> None], unweighted |-> TRUE]
    ELSE LET word == Join(AllButLast(parts))
             f == ParseFloat(parts[Len(parts)])
         IN IF f.ok
            THEN [entry |-> [word |-> word, wt |-> f.val], unweighted |-> FALSE]
            ELSE [entry |-> [word |-> word, wt |-> None], unweighted |-> TRUE]

\* src/permute.py, the loop body for a non-blank line: the entry appended,
\* or raised = TRUE for the ValueError it raises
ReadEntryLegacy(line) ==
    LET parts == Split(line)
        n == ParseInt(parts[Len(parts)])
    IN IF n.ok
       THEN [raised |-> FALSE,
             entry |-> [word |-> Join(AllButLast(parts)), wt |-> n.val]]
       ELSE [raised |-> TRUE, entry |-> [word |-> <<>>, wt |-> None]]

\* the nested loops over entries, skipping equal words: the (i, j) index
\* pairs in generation order
PairIndices(entries) ==
    LET n == Len(entries)
        all == [k \in 1..(n * n) |-> <<((k - 1) \div n) + 1, ((k - 1) % n) + 1>>]
        Distinct(ij) == entries[ij[1]].word # entries[ij[2]].word
    IN SelectSeq(all, Distinct)

\* pairs.append((wt1 + wt2, wt1, word1, word2))
WeightedPairs(entries) ==
    LET ix == PairIndices(entries) IN
    [k \in 1..Len(ix) |->
        LET e1 == entries[ix[k][1]]
            e2 == entries[ix[k][2]]
        IN [total |-> Add(e1.wt, e2.wt), wt1 |-> e1.wt,
            word1 |-> e1.word, word2 |-> e2.word]]

\* mutant: key=lambda x: x[0]
KeyLessTotalOnly(a, b) == Less(a.total, b.total)

\* (x[0], x[1]) of a < (x[0], x[1]) of b, as tuples
KeyLess(a, b) ==
    \/ Less(a.total, b.total)
    \/ (a.total = b.total /\ Less(a.wt1, b.wt1))

\* x put into the sorted list after every element whose key is not smaller
InsertDesc(sorted, x) ==
    LET smaller == {i \in DOMAIN sorted : KeyLess(sorted[i], x)}
        at == IF smaller = {} THEN Len(sorted) + 1
              ELSE CHOOSE i \in smaller : \A j \in smaller : i <= j
    IN SubSeq(sorted, 1, at - 1) \o <<x>> \o SubSeq(sorted, at, Len(sorted))

RECURSIVE SortLoop(_, _, _)
SortLoop(ps, k, sorted) ==
    IF k > Len(ps) THEN sorted
    ELSE SortLoop(ps, k + 1, InsertDesc(sorted, ps[k]))

\* pairs.sort(key=lambda x: (x[0], x[1]), reverse=True): descending by
\* key, elements of equal key in their original order
SortDesc(ps) == SortLoop(ps, 1, <<>>)

\* print(f"{w1} {w2}") for every (w1, w2) of the list
PrintPairs(ps) == [k \in 1..Len(ps) |-> ps[k].word1 \o <<" ">> \o ps[k].word2]

\* unweighted mode: for w1 in words: for w2 in words: if w1 != w2
UnweightedPairs(entries) ==
    LET ix == PairIndices(entries) IN
    [k \in 1..Len(ix) |->
        [word1 |-> entries[ix[k][1]].word, word2 |-> entries[ix[k][2]].word]]

(***************************************************************************)
(* Inputs of Spec: masks built from the tokens of the mask language        *)
(***************************************************************************)
MaskTokens == {<<"?", "d">>, <<"?", "^">>, <<"{">>, <<"}">>, <<"-">>, <<"a">>}

TokenSeqs == UNION {[1..n -> MaskTokens] : n \in 0..MaxTokens}

DigitTokens(ts) == Cardinality({i \in DOMAIN ts : ts[i] = <<"?", "d">>})

SepMasks == {Flatten(ts) : ts \in {t \in TokenSeqs : DigitTokens(t) <= MaxDigitSlots}}

(***************************************************************************)
(* State                                                                   *)
(***************************************************************************)
VARIABLES
    mask,       \* generate_separators: the mask argument
    pc,         \* position in the running function
    ast,        \* generate_separators: parse_mask's result
    pos,        \* expand_elements: index of the next element of elems
    results,    \* expand_elements: the worklist "results"
    seps,       \* generate_separators: the returned list
    exc,        \* the exception that ended the call, "" when none
    parsed,     \* parse_mask: what the last call returned or raised
    masks,      \* fill_interstices: the masks argument
    lines,      \* fill_interstices: the lines argument
    cache,      \* fill_interstices: the dict "cache"
    mi,         \* fill_interstices: index of the next mask to expand
    li,         \* fill_interstices: index of the next line to read
    yielded,    \* fill_interstices: the strings yielded so far
    expansions, \* the masks generate_separators was called with, in order
    input,      \* permute_by_value: the lines argument, each line with
                \* what it says (kind, word, weight)
    ri,         \* permute_by_value: index of the next line to read
    entries,    \* permute_by_value: the list "entries"
    unweighted_mode,    \* permute_by_value: the flag of that name
    pairs,      \* permute_by_value: the sorted list "pairs"
    printed,    \* permute_by_value: the lines printed so far
    specs,      \* morph_caps main: the list "specs"
    stdin,      \* morph_caps main: the lines of sys.stdin
    line_no,    \* morph_caps main: index of the line being processed
    spec_no,    \* morph_caps main: index of the next spec for that line
    stdout,     \* morph_caps main: the lines printed
    stderr,     \* morph_caps main: the error lines printed
    call,       \* morph_caps main: the last apply_to_line call and its outcome
    heap,       \* the State objects: id -> digits (a list id) and next_ref
    lists,      \* the list objects: id -> contents
    frames,     \* the running calls of expand_elements, innermost last
    exps        \* what the outermost expand_elements returned

\* the variables of generate_separators other than mask, pc and exc
genVars == <<ast, pos, results, seps>>
parseVars == <<parsed>>
fillVars == <<masks, lines, cache, mi, li, yielded, expansions>>
permVars == <<input, ri, entries, unweighted_mode, pairs, printed>>

morphVars == <<specs, stdin, line_no, spec_no, stdout, stderr, call>>
heapVars == <<heap, lists, frames, exps>>

vars == <<mask, pc, exc, genVars, parseVars, fillVars, permVars, morphVars,
          heapVars>>

GenIdle == ast = <<>> /\ pos = 0 /\ results = <<>> /\ seps = <<>>
ParseIdle == parsed = <<>>
FillIdle ==
    /\ masks = <<>> /\ lines = <<>> /\ cache = <<>> /\ mi = 0 /\ li = 0
    /\ yielded = <<>> /\ expansions = <<>>
PermIdle ==
    /\ input = <<>> /\ ri = 0 /\ entries = <<>> /\ unweighted_mode = FALSE
    /\ pairs = <<>> /\ printed = <<>>
MorphIdle ==
    /\ specs = <<>> /\ stdin = <<>> /\ line_no = 0 /\ spec_no = 0
    /\ stdout = <<>> /\ stderr = <<>> /\ call = <<>>
HeapIdle == heap = <<>> /\ lists = <<>> /\ frames = <<>> /\ exps = <<>>

(***************************************************************************)
(* Spec: one call of generate_separators(mask)                             *)
(***************************************************************************)
Init ==
    /\ mask \in SepMasks
    /\ pc = "start"
    /\ exc = ""
    /\ GenIdle
    /\ ParseIdle
    /\ FillIdle
    /\ PermIdle
    /\ MorphIdle
    /\ HeapIdle

\* ast = parse_mask(mask); init = State(); results = [('', state)]
GenParse ==
    /\ pc = "start"
    /\ LET p == parse_mask(mask) IN
       IF p.ok
       THEN /\ ast' = p.elems
            /\ pos' = 1
            /\ results' = <<[out |-> <<>>, st |-> State0]>>
            /\ pc' = "expand"
            /\ exc' = exc
       ELSE /\ pc' = "raised"
            /\ exc' = "ValueError"
            /\ UNCHANGED <<ast, pos, results>>
    /\ UNCHANGED <<mask, seps, parseVars, fillVars, permVars, morphVars, heapVars>>

\* one iteration of the top-level "for el in elems" loop
GenExpandElement ==
    /\ pc = "expand"
    /\ pos <= Len(ast)
    /\ results' = ExpandStep(ast[pos], results)
    /\ pos' = pos + 1
    /\ IF Raised(results')
       THEN pc' = "raised" /\ exc' = "IndexError"
       ELSE pc' = pc /\ exc' = exc
    /\ UNCHANGED <<mask, ast, seps, parseVars, fillVars, permVars, morphVars, heapVars>>

\* return [out for out, _ in exps]
GenReturn ==
    /\ pc = "expand"
    /\ pos > Len(ast)
    /\ seps' = Outs(results)
    /\ pc' = "returned"
    /\ UNCHANGED <<mask, ast, pos, results, exc, parseVars, fillVars, permVars, morphVars, heapVars>>

Next == GenParse \/ GenExpandElement \/ GenReturn

Spec == Init /\ [][Next]_vars

(***************************************************************************)
(* SpecParse: parse_mask called on a mask, then on the mask with one more  *)
(* character appended, and so on                                           *)
(***************************************************************************)
MaskChars == {"?", "d", "^", "{", "}", "-", "a"}

ParseInit ==
    /\ mask = <<>>
    /\ pc = "start"
    /\ exc = ""
    /\ GenIdle
    /\ ParseIdle
    /\ FillIdle
    /\ PermIdle
    /\ MorphIdle
    /\ HeapIdle

\* parse_mask(mask)
ParseCall ==
    /\ pc = "start"
    /\ parsed' = parse_mask(mask)
    /\ exc' = IF parsed'.ok THEN "" ELSE "ValueError"
    /\ pc' = "parsed"
    /\ UNCHANGED <<mask, genVars, fillVars, permVars, morphVars, heapVars>>

\* parse_mask(mask + c)
ParseExtended ==
    /\ pc = "parsed"
    /\ Len(mask) < MaxMaskLen
    /\ \E c \in MaskChars :
          /\ mask' = Append(mask, c)
          /\ parsed' = parse_mask(mask')
    /\ exc' = IF parsed'.ok THEN "" ELSE "ValueError"
    /\ UNCHANGED <<pc, genVars, fillVars, permVars, morphVars, heapVars>>

ParseNext == ParseCall \/ ParseExtended

SpecParse == ParseInit /\ [][ParseNext]_vars

(***************************************************************************)
(* SpecFill: one run of the generator fill_interstices(lines, masks)       *)
(***************************************************************************)
\* "?d", "a", "?^" (expands to nothing), "{" (malformed)
FillMaskChoices == {<<"?", "d">>, <<"a">>, <<"?", "^">>, <<"{">>}

\* "fo ba", "  b \t q\n", "f", "f b q", "\n"
FillLineChoices ==
    {<<"f", "o", " ", "b", "a">>,
     <<" ", " ", "b", " ", "\t", " ", "q", "\n">>,
     <<"f">>,
     <<"f", " ", "b", " ", "q">>,
     <<"\n">>}

SeqsUpTo(S, n) == UNION {[1..k -> S] : k \in 0..n}

FillInit ==
    /\ masks \in SeqsUpTo(FillMaskChoices, MaxMasks)
    /\ lines \in SeqsUpTo(FillLineChoices, MaxLines)
    /\ cache = <<>>
    /\ mi = 1
    /\ li = 1
    /\ yielded = <<>>
    /\ expansions = <<>>
    /\ pc = "run"
    /\ exc = ""
    /\ mask = <<>>
    /\ GenIdle
    /\ ParseIdle
    /\ PermIdle
    /\ MorphIdle
    /\ HeapIdle

\* one iteration of "for mask in masks: cache[mask] = generate_separators(mask)"
FillCacheMask ==
    /\ pc = "run"
    /\ mi <= Len(masks)
    /\ expansions' = Append(expansions, masks[mi])
    /\ LET g == generate_separators(masks[mi]) IN
       IF g.ok
       THEN /\ cache' = CachePut(cache, masks[mi], g.seps)
            /\ mi' = mi + 1
            /\ UNCHANGED <<pc, exc>>
       ELSE /\ pc' = "raised"
            /\ exc' = "ValueError"
            /\ UNCHANGED <<cache, mi>>
    /\ UNCHANGED <<masks, lines, li, yielded, mask, genVars, parseVars, permVars, morphVars, heapVars>>

\* one iteration of "for raw in lines", with everything it yields
FillLine ==
    /\ pc = "run"
    /\ mi > Len(masks)
    /\ li <= Len(lines)
    /\ LET parts == Split(Strip(lines[li])) IN
       yielded' = IF LineSkipped(parts) THEN yielded
                  ELSE yielded \o LineOutputs(parts[1], parts[2], masks, cache)
    /\ li' = li + 1
    /\ UNCHANGED <<masks, lines, cache, mi, expansions, pc, exc, mask,
                   genVars, parseVars, permVars, morphVars, heapVars>>

\* the generator is exhausted
FillReturn ==
    /\ pc = "run"
    /\ mi > Len(masks)
    /\ li > Len(lines)
    /\ pc' = "done"
    /\ UNCHANGED <<exc, mask, genVars, parseVars, fillVars, permVars, morphVars, heapVars>>

FillNext == FillCacheMask \/ FillLine \/ FillReturn

SpecFill == FillInit /\ [][FillNext]_vars

(***************************************************************************)
(* SpecPermute: one call of permute_by_value(lines) of                     *)
(* nicky-wordtools/permute.py.  SpecPermuteLegacy: the same call of        *)
(* src/permute.py.                                                         *)
(***************************************************************************)
\* The lines the input is drawn from.  Each comes with what it says:
\* kind "blank", "missing" (no weight), "invalid" (a weight that is no
\* number) or "weighted", its word and its weight.
PermLineChoices ==
    {[text |-> <<"a", " ", "1", "\n">>, kind |-> "weighted",
      word |-> <<"a">>, weight |-> Number(1, 1)],
     [text |-> <<"b", " ", " ", "2", ".", "0", "\n">>, kind |-> "weighted",
      word |-> <<"b">>, weight |-> Number(2, 1)],
     [text |-> <<"c", " ", "+", "2", "\n">>, kind |-> "weighted",
      word |-> <<"c">>, weight |-> Number(2, 1)],
     [text |-> <<"d", " ", "-", "1", ".", "5", "\n">>, kind |-> "weighted",
      word |-> <<"d">>, weight |-> Number(-15, 10)],
     [text |-> <<"a", " ", "b", "\t", "3", "\n">>, kind |-> "weighted",
      word |-> <<"a", " ", "b">>, weight |-> Number(3, 1)],
     [text |-> <<"b", "\n">>, kind |-> "missing",
      word |-> <<"b">>, weight |-> None],
     [text |-> <<"c", " ", "x", "\n">>, kind |-> "invalid",
      word |-> <<"c">>, weight |-> None],
     [text |-> <<" ", "\n">>, kind |-> "blank",
      word |-> <<>>, weight |-> None]}

PermInit ==
    /\ input \in SeqsUpTo(PermLineChoices, MaxPermLines)
    /\ ri = 1
    /\ entries = <<>>
    /\ unweighted_mode = FALSE
    /\ pairs = <<>>
    /\ printed = <<>>
    /\ pc = "read"
    /\ exc = ""
    /\ mask = <<>>
    /\ GenIdle
    /\ ParseIdle
    /\ FillIdle
    /\ MorphIdle
    /\ HeapIdle

\* nicky-wordtools/permute.py: one iteration of "for line in lines"
PermReadLine ==
    /\ pc = "read"
    /\ ri <= Len(input)
    /\ LET line == Strip(input[ri].text) IN
       IF line = <<>>
       THEN UNCHANGED <<entries, unweighted_mode>>
       ELSE LET r == ReadEntry(line) IN
            /\ entries' = Append(entries, r.entry)
            /\ unweighted_mode' = (unweighted_mode \/ r.unweighted)
    /\ ri' = ri + 1
    /\ UNCHANGED <<input, pairs, printed, pc, exc, mask, genVars, parseVars,
                   fillVars, morphVars, heapVars>>

\* nicky-wordtools/permute.py: everything after the reading loop
PermPrint ==
    /\ pc = "read"
    /\ ri > Len(input)
    /\ IF entries = <<>>
       THEN UNCHANGED <<pairs, printed>>
       ELSE IF unweighted_mode
       THEN /\ printed' = PrintPairs(UnweightedPairs(entries))
            /\ UNCHANGED pairs
       ELSE /\ pairs' = SortDesc(WeightedPairs(entries))
            /\ printed' = PrintPairs(pairs')
    /\ pc' = "done"
    /\ UNCHANGED <<input, ri, entries, unweighted_mode, exc, mask, genVars,
                   parseVars, fillVars, morphVars, heapVars>>

PermNext == PermReadLine \/ PermPrint

SpecPermute == PermInit /\ [][PermNext]_vars

\* src/permute.py: one iteration of "for lineno, line in enumerate(lines, 1)"
LegacyReadLine ==
    /\ pc = "read"
    /\ ri <= Len(input)
    /\ LET line == Strip(input[ri].text) IN
       IF line = <<>>
       THEN UNCHANGED <<entries, pc, exc>>
       ELSE LET r == ReadEntryLegacy(line) IN
            IF r.raised
            THEN pc' = "raised" /\ exc' = "ValueError" /\ UNCHANGED entries
            ELSE entries' = Append(entries, r.entry) /\ UNCHANGED <<pc, exc>>
    /\ ri' = ri + 1
    /\ UNCHANGED <<input, unweighted_mode, pairs, printed, mask, genVars,
                   parseVars, fillVars, morphVars, heapVars>>

\* src/permute.py: everything after the reading loop
LegacyPrint ==
    /\ pc = "read"
    /\ ri > Len(input)
    /\ pairs' = SortDesc(WeightedPairs(entries))
    /\ printed' = PrintPairs(pairs')
    /\ pc' = "done"
    /\ UNCHANGED <<input, ri, entries, unweighted_mode, exc, mask, genVars,
                   parseVars, fillVars, morphVars, heapVars>>

LegacyNext == LegacyReadLine \/ LegacyPrint

SpecPermuteLegacy == PermInit /\ [][LegacyNext]_vars

(***************************************************************************)
(* Reference notions the claims are stated with                            *)
(***************************************************************************)
RECURSIVE FlatTypes(_)
\* the element types of a tree in processing order, groups opened up
FlatTypes(elems) ==
    IF elems = <<>> THEN <<>>
    ELSE (IF Head(elems).typ = "group" THEN FlatTypes(Head(elems).sub)
          ELSE <<Head(elems).typ>>) \o FlatTypes(Tail(elems))

CountOf(typ, types) == Cardinality({i \in DOMAIN types : types[i] = typ})

\* number of digit slots / back-references of a tree
DigitSlots(elems) == CountOf("d", FlatTypes(elems))
BackRefs(elems) == CountOf("caret", FlatTypes(elems))

\* some back-reference is processed when every digit so far is referenced
Starved(elems) ==
    LET ts == FlatTypes(elems) IN
    \E n \in DOMAIN ts :
        CountOf("caret", SubSeq(ts, 1, n)) > CountOf("d", SubSeq(ts, 1, n))

RECURSIVE HasReverse(_)
HasReverse(elems) ==
    \E i \in DOMAIN elems :
        elems[i].typ = "group" /\ (elems[i].rev \/ HasReverse(elems[i].sub))

\* the k-digit zero-padded decimal representation of j
ZeroPad(j, k) ==
    [i \in 1..k |-> DigitChars[((j \div Pow10(k - i)) % 10) + 1]]

IsDigitChar(c) == \E i \in DOMAIN DigitChars : DigitChars[i] = c

\* the elements of the top-level tree processed so far
Processed == SubSeq(ast, 1, pos - 1)

RECURSIVE RefEval(_, _, _, _)
\* What one branch prints for elems when its digit history ends up as
\* digits: the n-th digit slot prints digits[n], the n-th back-reference
\* prints the shifted symbol of digits[n], counting through groups.
\* nd, nc: digit slots and back-references already passed.
RefEval(elems, digits, nd, nc) ==
    IF elems = <<>> THEN [out |-> <<>>, nd |-> nd, nc |-> nc]
    ELSE LET el == Head(elems)
             one == CASE el.typ = "d" ->
                            [out |-> <<digits[nd + 1]>>, nd |-> nd + 1, nc |-> nc]
                      [] el.typ = "caret" ->
                            [out |-> <<SHIFT_MAP(digits[nc + 1])>>, nd |-> nd, nc |-> nc + 1]
                      [] el.typ = "lit" ->
                            [out |-> <<el.ch>>, nd |-> nd, nc |-> nc]
                      [] el.typ = "group" ->
                            LET g == RefEval(el.sub, digits, nd, nc)
                            IN [g EXCEPT !.out = IF el.rev THEN Reverse(@) ELSE @]
             rest == RefEval(Tail(elems), digits, one.nd, one.nc)
         IN [rest EXCEPT !.out = one.out \o @]

(***************************************************************************)
(* C1: for a well-formed mask with k digit slots and a non-empty           *)
(* expansion, generate_separators returns 10^k results, and the j-th       *)
(* (0-based) is the branch whose digit choices are the k-digit zero-padded *)
(* decimal representation of j (first slot most significant); where no     *)
(* group reverses text, the digits printed in the j-th separator read      *)
(* exactly that representation.  "?d" gives "0".."9", "?d?d" gives         *)
(* "00".."99".                                                             *)
(***************************************************************************)
C1_AscendingDigitOrder ==
    (pc = "returned" /\ seps # <<>>) =>
        LET k == DigitSlots(ast) IN
        /\ Len(seps) = Pow10(k)
        /\ Len(results) = Len(seps)
        /\ \A j \in 0..(Len(seps) - 1) :
              /\ results[j + 1].st.digits = ZeroPad(j, k)
              /\ ~HasReverse(ast) =>
                    SelectSeq(seps[j + 1], IsDigitChar) = ZeroPad(j, k)
        /\ mask = <<"?", "d">> => seps = [i \in 1..10 |-> <<DigitChars[i]>>]

C1_Witness ==
    /\ pc = "returned"
    /\ mask = <<"?", "d", "?", "d">>
    /\ Len(seps) = 100
    /\ seps[1] = <<"0", "0">>
    /\ seps[38] = <<"3", "7">>
    /\ seps[100] = <<"9", "9">>

(***************************************************************************)
(* C2: along every surviving branch the n-th back-reference processed      *)
(* (in processing order, through group boundaries) prints the shifted      *)
(* symbol of the n-th digit of the branch's digit history: after any       *)
(* number of top-level elements every partial result's output is what the  *)
(* reference evaluation prints for its digit history, and its cursor is    *)
(* the number of back-references processed.                                *)
(***************************************************************************)
C2_BackRefEmitsNthDigit ==
    (pc \in {"expand", "returned"}) =>
        \A k \in 1..Len(results) :
            LET e == results[k]
                r == RefEval(Processed, e.st.digits, 0, 0)
            IN /\ e.out = r.out
               /\ e.st.next_ref = BackRefs(Processed)
               /\ r.nc = e.st.next_ref
               /\ Len(e.st.digits) = DigitSlots(Processed)

C2_Witness ==
    /\ pc = "returned"
    /\ mask = <<"?", "d", "?", "d", "?", "^">>
    /\ Len(seps) = 100
    /\ seps[2] = <<"0", "1", ")">>
    /\ seps[100] = <<"9", "9", "(">>

(***************************************************************************)
(* C3: a back-reference met when the cursor is at or past the end of the   *)
(* digit history drops the branch and raises nothing: the only exception   *)
(* of generate_separators is parse_mask's ValueError; a mask in which some *)
(* back-reference has no unreferenced digit left returns the empty list,   *)
(* whatever follows that back-reference, and no other mask does.           *)
(***************************************************************************)
C3_UnresolvedBackRefPrunes ==
    /\ exc # "IndexError"
    /\ pc = "raised" => (exc = "ValueError" /\ ~parse_mask(mask).ok)
    /\ (pc = "start" /\ parse_mask(mask).ok) => generate_separators(mask).ok
    /\ pc = "returned" => (seps = <<>> <=> Starved(ast))
    /\ (pc = "expand" /\ Starved(Processed)) => results = <<>>

C3_Witness ==
    /\ pc = "returned"
    /\ mask = <<"?", "^", "?", "d">>
    /\ seps = <<>>
    /\ exc = ""

(***************************************************************************)
(* C4: for the body X of any group about to be expanded and the state of   *)
(* any partial result, Group(X, reverse) and Group(X, not reversed) give   *)
(* lists of the same length whose i-th states are identical and whose i-th *)
(* texts are character reversals of each other; the states are those the   *)
(* body's expansion left, and they are the states the elements after the   *)
(* group start from.                                                       *)
(***************************************************************************)
C4_GroupAt(el, rest, e) ==
    LET start == <<[out |-> <<>>, st |-> e.st]>>
        fwd == ExpandStep(ElemGroup(el.sub, FALSE), start)
        bwd == ExpandStep(ElemGroup(el.sub, TRUE), start)
        body == expand_elements(el.sub, e.st)
        whole == expand_elements(<<el>> \o rest, e.st)
        own == IF el.rev THEN bwd ELSE fwd
        after == Flatten([i \in 1..Len(own) |->
                    LET tail == expand_elements(rest, own[i].st)
                    IN [m \in 1..Len(tail) |->
                          [out |-> own[i].out \o tail[m].out, st |-> tail[m].st]]])
    IN /\ Len(fwd) = Len(bwd)
       /\ Len(fwd) = Len(body)
       /\ \A i \in 1..Len(fwd) :
             /\ fwd[i].st = bwd[i].st
             /\ fwd[i].st = body[i].st
             /\ bwd[i].out = Reverse(fwd[i].out)
             /\ fwd[i].out = body[i].out
       /\ whole = after

C4_ReverseKeepsState ==
    (pc = "expand" /\ pos <= Len(ast) /\ ast[pos].typ = "group") =>
        \A k \in 1..Len(results) :
            C4_GroupAt(ast[pos], SubSeq(ast, pos + 1, Len(ast)), results[k])

\* "{?d?^}" after its group was expanded: the body printed two characters,
\* appended a digit and advanced the cursor; reversed it prints them swapped
C4_Witness ==
    /\ pc = "expand"
    /\ mask = <<"{", "?", "d", "?", "^", "}">>
    /\ pos = 2
    /\ Len(results) = 10
    /\ results[4] = [out |-> <<"3", "#">>,
                     st |-> [digits |-> <<"3">>, next_ref |-> 1]]
    /\ LET g == ExpandStep(ElemGroup(ast[1].sub, TRUE),
                           <<[out |-> <<>>, st |-> State0]>>)
       IN /\ Len(g) = 10
          /\ g[4].out = <<"#", "3">>
          /\ g[4].st = results[4].st

(***************************************************************************)
(* Reference notions for the parser claims                                 *)
(***************************************************************************)
\* occurrences of character c among m[a..b]
CountCh(c, m, a, b) == Cardinality({i \in a..b : m[i] = c})

\* m[i] is a '{' with no matching '}' after it: from i on, the '{' seen
\* always outnumber the '}' seen
UnmatchedOpenAt(m, i) ==
    /\ m[i] = "{"
    /\ \A j \in (i + 1)..Len(m) :
          CountCh("{", m, i, j) > CountCh("}", m, i, j)

HasUnmatchedOpen(m) == \E i \in DOMAIN m : UnmatchedOpenAt(m, i)

RECURSIVE Unparse(_)
\* the mask text a tree stands for
Unparse(elems) ==
    IF elems = <<>> THEN <<>>
    ELSE LET el == Head(elems)
             one == CASE el.typ = "d" -> <<"?", "d">>
                      [] el.typ = "caret" -> <<"?", "^">>
                      [] el.typ = "lit" -> <<el.ch>>
                      [] el.typ = "group" ->
                            <<"{">> \o Unparse(el.sub) \o <<"}">>
                            \o (IF el.rev THEN <<"-">> ELSE <<>>)
         IN one \o Unparse(Tail(elems))

(***************************************************************************)
(* C5: parse_mask raises exactly when the mask holds a '{' with no         *)
(* matching '}' after it; the error is raised by the call on the whole     *)
(* mask, never by the recursive call on a matched group's content; every   *)
(* other mask parses to a tree that spells the mask back, so an unmatched  *)
(* '}', a lone '?' and a '-' not directly after a group's '}' are          *)
(* literals (a mask without '{' has no group at all).                      *)
(***************************************************************************)
C5_FailsIffUnmatchedOpen ==
    pc = "parsed" =>
        /\ ~parsed.ok <=> HasUnmatchedOpen(mask)
        /\ ~parsed.ok => parsed.err = mask
        /\ parsed.ok => Unparse(parsed.elems) = mask
        /\ (parsed.ok /\ CountCh("{", mask, 1, Len(mask)) = 0) =>
              \A i \in DOMAIN parsed.elems : parsed.elems[i].typ # "group"

\* "-}?{}": '-', '}' and '?' are literals, "{}" is an empty group
C5_Witness ==
    /\ pc = "parsed"
    /\ mask = <<"-", "}", "?", "{", "}">>
    /\ parsed.ok
    /\ parsed.elems = <<ElemLit("-"), ElemLit("}"), ElemLit("?"),
                        ElemGroup(<<>>, FALSE)>>

(***************************************************************************)
(* C6 as claimed: once parse_mask(m) has failed, parse_mask(m + s) fails   *)
(* for every suffix s.                                                     *)
(***************************************************************************)
C6_FailsForEverySuffix ==
    [][(pc = "parsed" /\ ~parsed.ok) => ~parsed'.ok]_vars

(***************************************************************************)
(* C6 amended: once parse_mask(m) has failed, parse_mask(m + c) fails for  *)
(* every appended character c other than '}' (so for every suffix without  *)
(* '}'); only closing braces can complete the mask.                        *)
(***************************************************************************)
C6_FailsForSuffixWithoutClose ==
    [][(pc = "parsed" /\ ~parsed.ok /\ mask' # mask
        /\ mask'[Len(mask')] # "}") => ~parsed'.ok]_vars

\* "{" failed, and still fails after "a?d-" was appended
C6_Witness ==
    /\ pc = "parsed"
    /\ mask = <<"{", "a", "?", "d", "-">>
    /\ ~parsed.ok
    /\ parsed.err = mask

(***************************************************************************)
(* Reference notions for the driver claims                                 *)
(***************************************************************************)
\* the positions where a whitespace-separated token of text starts
TokenStarts(text) ==
    {i \in DOMAIN text : ~IsSpace(text[i]) /\ (i = 1 \/ IsSpace(text[i - 1]))}

\* the token of text that starts at position i
TokenAt(text, i) ==
    LET last == CHOOSE j \in i..Len(text) :
                    /\ \A k \in i..j : ~IsSpace(text[k])
                    /\ (j = Len(text) \/ IsSpace(text[j + 1]))
    IN SubSeq(text, i, last)

\* what one line contributes: nothing unless it has exactly two tokens
ExpectedForLine(raw, ms) ==
    LET starts == TokenStarts(raw) IN
    IF Cardinality(starts) # 2 THEN <<>>
    ELSE LET a == CHOOSE i \in starts : \A j \in starts : i <= j
             b == CHOOSE i \in starts : \A j \in starts : i >= j
         IN Flatten([k \in 1..Len(ms) |->
               LET sp == generate_separators(ms[k]).seps
               IN [j \in 1..Len(sp) |-> TokenAt(raw, a) \o sp[j] \o TokenAt(raw, b)]])

\* what the first n lines contribute, line order outermost
ExpectedOutput(ls, n, ms) ==
    Flatten([i \in 1..n |-> ExpectedForLine(ls[i], ms)])

\* how often x occurs in the sequence q
Occurrences(q, x) == Cardinality({i \in DOMAIN q : q[i] = x})

(***************************************************************************)
(* C7: what fill_interstices has yielded after any number of lines is, for *)
(* each of those lines in order that has exactly two whitespace-separated  *)
(* tokens w1 w2, for each mask in the order supplied, for each separator   *)
(* in that mask's expansion order, w1 + separator + w2; any other line     *)
(* adds nothing, raises nothing and does not end the run: the generator    *)
(* finishes only after the last line, and only a malformed mask raises.    *)
(***************************************************************************)
C7_OutputOrder ==
    /\ (pc \in {"run", "done"} /\ mi > Len(masks)) =>
          yielded = ExpectedOutput(lines, li - 1, masks)
    /\ pc = "done" => (li = Len(lines) + 1 /\ exc = "")
    /\ pc = "raised" =>
          /\ \E k \in DOMAIN masks : ~parse_mask(masks[k]).ok
          /\ li = 1
          /\ yielded = <<>>

\* a three-token line is skipped and the line after it is still processed
C7_Witness ==
    /\ pc = "done"
    /\ masks = <<<<"a">>, <<"?", "d">>>>
    /\ lines = <<<<"f", " ", "b", " ", "q">>,
                 <<" ", " ", "b", " ", "\t", " ", "q", "\n">>>>
    /\ Len(yielded) = 11
    /\ yielded[1] = <<"b", "a", "q">>
    /\ yielded[2] = <<"b", "0", "q">>
    /\ yielded[11] = <<"b", "9", "q">>

(***************************************************************************)
(* C8 as claimed: in one run the expansion of each mask string is computed *)
(* exactly once; all expansions come before the first line is read or      *)
(* anything is yielded; reading lines computes no expansion.               *)
(***************************************************************************)
C8_EachMaskStringExpandedOnce ==
    /\ pc = "done" =>
          \A k \in DOMAIN masks : Occurrences(expansions, masks[k]) = 1
    /\ (li > 1 \/ yielded # <<>>) => Len(expansions) = Len(masks)
    /\ mi > Len(masks) => \A k \in DOMAIN masks : masks[k] \in DOMAIN cache

\* What the code does do: one expansion per supplied mask argument, in
\* order, all before the first line; a mask string supplied twice is
\* expanded twice.
FillExpandsEachArgumentOnce ==
    /\ pc \in {"run", "done"} => expansions = SubSeq(masks, 1, mi - 1)
    /\ (li > 1 \/ yielded # <<>>) => expansions = masks
    /\ mi > Len(masks) =>
          \A k \in DOMAIN masks :
              /\ masks[k] \in DOMAIN cache
              /\ cache[masks[k]] = generate_separators(masks[k]).seps

(***************************************************************************)
(* Reference notions for the permute claims, from what the lines say       *)
(***************************************************************************)
IsNonBlank(l) == l.kind # "blank"
NonBlank(inp) == SelectSeq(inp, IsNonBlank)

\* every non-blank line carries a valid numeric weight
AllWeighted(inp) == \A i \in DOMAIN inp : inp[i].kind \in {"weighted", "blank"}

\* some non-blank line has a missing or non-numeric weight
SomeUnweighted(inp) == \E i \in DOMAIN inp : inp[i].kind \in {"missing", "invalid"}

\* the ordered pairs of lines with different words
DistinctWordPairs(es) ==
    {ij \in (DOMAIN es) \X (DOMAIN es) : es[ij[1]].word # es[ij[2]].word}

\* the pair of lines i, j with its weights
PairOf(es, ij) ==
    [total |-> Add(es[ij[1]].weight, es[ij[2]].weight), wt1 |-> es[ij[1]].weight,
     word1 |-> es[ij[1]].word, word2 |-> es[ij[2]].word]

\* the unweighted output: first word outermost, second innermost
ExpectedUnweighted(inp) ==
    LET es == NonBlank(inp) IN
    Flatten([i \in 1..Len(es) |->
        Flatten([j \in 1..Len(es) |->
            IF es[i].word # es[j].word
            THEN <<es[i].word \o <<" ">> \o es[j].word>>
            ELSE <<>>])])

C10_FallsBackToInputOrder ==
    /\ SomeUnweighted(input) => (pc # "raised" /\ exc = "")
    /\ (pc = "done" /\ SomeUnweighted(input)) =>
          printed = ExpectedUnweighted(input)
    /\ pc = "done" => Len(entries) = Len(NonBlank(input))

(***************************************************************************)
(* morph_caps.py : Spec.apply_to_line                                      *)
(***************************************************************************)
\* Bounds of the capitalization specs: word indices 0..MaxWordIndex,
\* positions 0..MaxPos, spans 1..MaxSpan; main reads at most MaxMorphLines
\* lines
MaxWordIndex == 2
MaxPos == 2
MaxSpan == 2
MaxMorphLines == 2

\* str.upper() on one character
Upper(ch) ==
    CASE ch = "a" -> "A" [] ch = "b" -> "B" [] ch = "c" -> "C"
      [] ch = "d" -> "D" [] OTHER -> ch

\* str.upper()
UpperStr(str) == [i \in 1..Len(str) |-> Upper(str[i])]

\* Spec(start, end, direction, pos, min_span, max_span)
MkSpec(start, end, direction, p, min_span, max_span) ==
    [start |-> start, end |-> end, direction |-> direction, pos |-> p,
     min_span |-> min_span, max_span |-> max_span]

\* "if self.start < 1 or self.end > n_words"
RangeOutOfBounds(spec, n_words) == spec.start < 1 \/ spec.end > n_words

\* "if self.pos < 1 or self.pos > len(word)"
PosOutOfBounds(spec, word) == spec.pos < 1 \/ spec.pos > Len(word)

\* mutant: the word is never reversed
RepFront(spec, word) == word

\* rep: the word, reversed for '$'
Rep(spec, word) == IF spec.direction = "^" THEN word ELSE Reverse(word)

\* "if start < 0 or end > len(rep): continue"
SpanSkipped(rep, start, end) == start < 0 \/ end > Len(rep)

\* the line built for one span [start, end) of rep, words[wi] replaced
\* (wi 0-based)
SpanLine(spec, words, wi, start, end) ==
    LET rep == Rep(spec, words[wi + 1])
        mutated == Slice(rep, 0, start) \o UpperStr(Slice(rep, start, end))
                       \o Slice(rep, end, Len(rep))
        final_word == IF spec.direction = "^" THEN mutated ELSE Reverse(mutated)
        new_words == [words EXCEPT ![wi + 1] = final_word]
    IN Join(new_words)

\* "for offset in range(max_offset + 1)" for one span_len
OffsetLines(spec, words, wi, span_len) ==
    LET max_offset == spec.max_span - span_len
        base == spec.pos - 1
    IN Flatten([k \in 1..(max_offset + 1) |->
           LET start == base + (k - 1)
               end == start + span_len
           IN IF SpanSkipped(Rep(spec, words[wi + 1]), start, end) THEN <<>>
              ELSE <<SpanLine(spec, words, wi, start, end)>>])

\* "for span_len in range(self.min_span, self.max_span + 1)" for one word
WordLines(spec, words, wi) ==
    Flatten([k \in 1..(spec.max_span - spec.min_span + 1) |->
                OffsetLines(spec, words, wi, spec.min_span + k - 1)])

RECURSIVE ApplyLoop(_, _, _, _)
\* "for wi in range(self.start - 1, self.end)" from wi on; built is the
\* local list "results" at the moment the call ended
ApplyLoop(spec, words, wi, res) ==
    IF wi >= spec.end
    THEN [raised |-> FALSE, results |-> res, built |-> res]
    ELSE IF PosOutOfBounds(spec, words[wi + 1])
    THEN [raised |-> TRUE, results |-> <<>>, built |-> res]
    ELSE ApplyLoop(spec, words, wi + 1, res \o WordLines(spec, words, wi))

\* Spec.apply_to_line(line): the returned list, or raised = TRUE for
\* ValueError
apply_to_line(spec, line) ==
    LET words == Split(line) IN
    IF RangeOutOfBounds(spec, Len(words))
    THEN [raised |-> TRUE, results |-> <<>>, built |-> <<>>]
    ELSE ApplyLoop(spec, words, spec.start - 1, <<>>)

RECURSIVE RStripNewline(_)
\* line.rstrip('\n')
RStripNewline(line) ==
    IF line # <<>> /\ line[Len(line)] = "\n"
    THEN RStripNewline(SubSeq(line, 1, Len(line) - 1))
    ELSE line

(***************************************************************************)
(* SpecMorph: one run of morph_caps main                                   *)
(***************************************************************************)
\* what parse_spec can return: start, end, pos any number, 1 <= min <= max
MorphSpecs ==
    {sp \in [start : 0..MaxWordIndex, end : 0..MaxWordIndex,
             direction : {"^", "$"}, pos : 0..MaxPos,
             min_span : 1..MaxSpan, max_span : 1..MaxSpan] :
        sp.min_span <= sp.max_span}

\* a second command-line spec: w1^1{1-1}
FollowingSpecs == {MkSpec(1, 1, "^", 1, 1, 1)}

\* sys.argv[1:], parsed: one spec, or one spec and a following one
MorphSpecLists ==
    {<<sp>> : sp \in MorphSpecs}
        \cup {<<sp, t>> : sp \in MorphSpecs, t \in FollowingSpecs}

\* "aB c\n", "a  bcd\n", "abc\n", "\n"
MorphLineChoices ==
    {<<"a", "B", " ", "c", "\n">>,
     <<"a", " ", " ", "b", "c", "d", "\n">>,
     <<"a", "b", "c", "\n">>,
     <<"\n">>}

MorphInit ==
    /\ specs \in MorphSpecLists
    /\ stdin \in SeqsUpTo(MorphLineChoices, MaxMorphLines)
    /\ line_no = 1
    /\ spec_no = 1
    /\ stdout = <<>>
    /\ stderr = <<>>
    /\ call = <<>>
    /\ pc = "run"
    /\ exc = ""
    /\ mask = <<>>
    /\ GenIdle
    /\ ParseIdle
    /\ FillIdle
    /\ PermIdle
    /\ HeapIdle

\* one iteration of "for spec in specs" for the current line: the call,
\* its prints, or the except clause and "continue"
MainApply ==
    /\ pc = "run"
    /\ line_no <= Len(stdin)
    /\ LET line == RStripNewline(stdin[line_no])
           r == apply_to_line(specs[spec_no], line)
       IN /\ call' = [spec |-> specs[spec_no], line |-> line,
                      raised |-> r.raised, results |-> r.results,
                      built |-> r.built]
          /\ stdout' = stdout \o r.results
          /\ stderr' = IF r.raised THEN Append(stderr, "Error: ValueError")
                       ELSE stderr
    /\ IF spec_no < Len(specs)
       THEN spec_no' = spec_no + 1 /\ line_no' = line_no
       ELSE spec_no' = 1 /\ line_no' = line_no + 1
    /\ UNCHANGED <<specs, stdin, pc, exc, mask, genVars, parseVars, fillVars,
                   permVars, heapVars>>

\* sys.stdin is exhausted
MainReturn ==
    /\ pc = "run"
    /\ line_no > Len(stdin)
    /\ pc' = "done"
    /\ UNCHANGED <<exc, mask, genVars, parseVars, fillVars, permVars,
                   morphVars, heapVars>>

MorphNext == MainApply \/ MainReturn

SpecMorph == MorphInit /\ [][MorphNext]_vars

(***************************************************************************)
(* fill_interstices.py : expand_elements over State objects                *)
(***************************************************************************)
\* Bounds: masks of SpecHeap are concatenations of at most MaxHeapTokens
\* mask tokens holding at most MaxHeapDigitSlots "?d" tokens
MaxHeapTokens == 4
MaxHeapDigitSlots == 1

\* A State object is heap[id] = [digits |-> id of its list object,
\* next_ref |-> n]; a list object is lists[id], its contents.
\* What a reader of State id sees: its digit queue and next_ref
View(h, ls, id) == [digits |-> ls[h[id].digits], next_ref |-> h[id].next_ref]

\* mutant: "st.digits = self.digits" (the list itself, no copy)
ClonedDigitsShared(ls, lid) == lid

\* clone: "st.digits = self.digits.copy()", the id of the fresh list
ClonedDigits(ls, lid) == Len(ls) + 1

\* State.clone(): a fresh State object with a copy of the digit list
Clone(h, ls, id) ==
    [heap |-> Append(h, [digits |-> ClonedDigits(ls, h[id].digits),
                         next_ref |-> h[id].next_ref]),
     lists |-> Append(ls, ls[h[id].digits]),
     id |-> Len(h) + 1]

\* mutant: "st2.next_ref = 0"
NextRefReset(n) == 0

\* "st2.next_ref += 1"
NextRefAfterCaret(n) == n + 1

RECURSIVE DigitLoop(_, _, _, _, _)
\* "for d in map(str, range(10))" from the j-th digit on, for the partial
\* result e: clone, append d to the clone's list, add the child
DigitLoop(h, ls, e, j, added) ==
    IF j > Len(DigitChars)
    THEN [heap |-> h, lists |-> ls, added |-> added, raised |-> FALSE]
    ELSE LET c == Clone(h, ls, e.st)
             lid == c.heap[c.id].digits
             ls2 == [n \in 1..Len(c.lists) |->
                        IF n = lid THEN Append(c.lists[n], DigitChars[j])
                        ELSE c.lists[n]]
         IN DigitLoop(c.heap, ls2, e, j + 1,
                      Append(added, [out |-> Append(e.out, DigitChars[j]),
                                     st |-> c.id]))

\* the caret branch for the partial result e
CaretEntry(h, ls, e) ==
    LET v == View(h, ls, e.st)
        n == CaretIndex(v)
    IN IF CaretPruned(v)
       THEN [heap |-> h, lists |-> ls, added |-> <<>>, raised |-> FALSE]
       ELSE IF ~(n >= 0 /\ n < Len(v.digits))
       THEN [heap |-> h, lists |-> ls, added |-> <<>>, raised |-> TRUE]
       ELSE LET c == Clone(h, ls, e.st)
                h2 == [m \in 1..Len(c.heap) |->
                          IF m = c.id
                          THEN [digits |-> c.heap[m].digits,
                                next_ref |-> NextRefAfterCaret(c.heap[m].next_ref)]
                          ELSE c.heap[m]]
            IN [heap |-> h2, lists |-> c.lists,
                added |-> <<[out |-> Append(e.out, SHIFT_MAP(v.digits[n + 1])),
                             st |-> c.id]>>,
                raised |-> FALSE]

\* the body of "for out, st in results" for a 'd', 'caret' or 'lit' element
EntryStep(h, ls, el, e) ==
    CASE el.typ = "d" -> DigitLoop(h, ls, e, 1, <<>>)
      [] el.typ = "caret" -> CaretEntry(h, ls, e)
      [] el.typ = "lit" ->
            [heap |-> h, lists |-> ls,
             added |-> <<[out |-> Append(e.out, el.ch), st |-> e.st]>>,
             raised |-> FALSE]

\* a call expand_elements(elems, state): "results = [('', state)]"
NewFrame(elems, id) ==
    [elems |-> elems, i |-> 1, results |-> <<[out |-> <<>>, st |-> id]>>,
     new_results |-> <<>>, k |-> 1]

\* the children a group element adds for the partial result e when the
\* group's expansion returned grp_exp
GroupAdded(e, grp_exp, rev) ==
    [n \in 1..Len(grp_exp) |->
        [out |-> e.out \o (IF rev THEN Reverse(grp_exp[n].out)
                           ELSE grp_exp[n].out),
         st |-> grp_exp[n].st]]

(***************************************************************************)
(* SpecHeap: generate_separators(mask), one partial result at a time       *)
(***************************************************************************)
HeapTokenSeqs == UNION {[1..n -> MaskTokens] : n \in 0..MaxHeapTokens}

HeapMasks ==
    {Flatten(ts) : ts \in {t \in HeapTokenSeqs :
                               DigitTokens(t) <= MaxHeapDigitSlots}}

\* the innermost running call
Top == frames[Len(frames)]

\* the frames with the innermost one replaced by f
WithTop(f) == [n \in 1..Len(frames) |-> IF n = Len(frames) THEN f ELSE frames[n]]

HeapInit ==
    /\ mask \in HeapMasks
    /\ pc = "start"
    /\ exc = ""
    /\ heap = <<>>
    /\ lists = <<>>
    /\ frames = <<>>
    /\ exps = <<>>
    /\ GenIdle
    /\ ParseIdle
    /\ FillIdle
    /\ PermIdle
    /\ MorphIdle

\* ast = parse_mask(mask); init = State(); the call expand_elements(ast, init)
HeapStart ==
    /\ pc = "start"
    /\ LET p == parse_mask(mask) IN
       IF p.ok
       THEN /\ heap' = <<[digits |-> 1, next_ref |-> 0]>>
            /\ lists' = <<<<>>>>
            /\ frames' = <<NewFrame(p.elems, 1)>>
            /\ pc' = "expand"
            /\ exc' = exc
       ELSE /\ pc' = "raised"
            /\ exc' = "ValueError"
            /\ UNCHANGED <<heap, lists, frames>>
    /\ UNCHANGED <<mask, exps, genVars, parseVars, fillVars, permVars, morphVars>>

\* one partial result of the worklist meets a 'd', 'caret' or 'lit' element
HeapEntry ==
    /\ pc = "expand"
    /\ Top.i <= Len(Top.elems)
    /\ Top.k <= Len(Top.results)
    /\ Top.elems[Top.i].typ # "group"
    /\ LET r == EntryStep(heap, lists, Top.elems[Top.i], Top.results[Top.k]) IN
       IF r.raised
       THEN /\ pc' = "raised"
            /\ exc' = "IndexError"
            /\ UNCHANGED <<heap, lists, frames>>
       ELSE /\ heap' = r.heap
            /\ lists' = r.lists
            /\ frames' = WithTop([Top EXCEPT !.new_results = @ \o r.added,
                                             !.k = @ + 1])
            /\ UNCHANGED <<pc, exc>>
    /\ UNCHANGED <<mask, exps, genVars, parseVars, fillVars, permVars, morphVars>>

\* one partial result meets a group: "grp_exp = expand_elements(sub_elems, st)"
HeapGroupCall ==
    /\ pc = "expand"
    /\ Top.i <= Len(Top.elems)
    /\ Top.k <= Len(Top.results)
    /\ Top.elems[Top.i].typ = "group"
    /\ frames' = Append(frames, NewFrame(Top.elems[Top.i].sub, Top.results[Top.k].st))
    /\ UNCHANGED <<mask, pc, exc, heap, lists, exps, genVars, parseVars,
                   fillVars, permVars, morphVars>>

\* the worklist is exhausted: "results = new_results", next element
HeapNextElement ==
    /\ pc = "expand"
    /\ Top.i <= Len(Top.elems)
    /\ Top.k > Len(Top.results)
    /\ frames' = WithTop([Top EXCEPT !.results = Top.new_results,
                                     !.new_results = <<>>,
                                     !.i = @ + 1, !.k = 1])
    /\ UNCHANGED <<mask, pc, exc, heap, lists, exps, genVars, parseVars,
                   fillVars, permVars, morphVars>>

\* "return results": to the group element that called, or to
\* generate_separators
HeapReturn ==
    /\ pc = "expand"
    /\ Top.i > Len(Top.elems)
    /\ IF Len(frames) = 1
       THEN /\ exps' = Top.results
            /\ frames' = <<>>
            /\ pc' = "done"
       ELSE LET caller == frames[Len(frames) - 1]
                el == caller.elems[caller.i]
                added == GroupAdded(caller.results[caller.k], Top.results, el.rev)
            IN /\ frames' = [n \in 1..(Len(frames) - 1) |->
                                IF n = Len(frames) - 1
                                THEN [caller EXCEPT !.new_results = @ \o added,
                                                    !.k = @ + 1]
                                ELSE frames[n]]
               /\ UNCHANGED <<exps, pc>>
    /\ UNCHANGED <<mask, exc, heap, lists, genVars, parseVars, fillVars,
                   permVars, morphVars>>

HeapNext ==
    HeapStart \/ HeapEntry \/ HeapGroupCall \/ HeapNextElement \/ HeapReturn

SpecHeap == HeapInit /\ [][HeapNext]_vars

(***************************************************************************)
(* Reference notions for the capitalization claims                         *)
(***************************************************************************)
\* main has made at least one apply_to_line call (call holds the last one)
MorphCalled == pc \in {"run", "done"} /\ (line_no > 1 \/ spec_no > 1)

\* the whitespace-separated words of a line, in order
RefWords(line) ==
    LET starts == TokenStarts(line) IN
    [n \in 1..Cardinality(starts) |->
        TokenAt(line, CHOOSE i \in starts :
                          Cardinality({j \in starts : j < i}) = n - 1)]

\* the 0-based position of character i (1-based) of word, counted from the
\* front for '^' and from the back for '$'
FromDir(spec, word, i) == IF spec.direction = "^" THEN i - 1 ELSE Len(word) - i

\* word with the characters at positions [a, a + len) uppercased
RefWord(spec, word, a, len) ==
    [i \in 1..Len(word) |->
        IF a <= FromDir(spec, word, i) /\ FromDir(spec, word, i) < a + len
        THEN Upper(word[i]) ELSE word[i]]

\* the candidates (word index, span length, offset) whose span does not
\* run past the end of the word
Candidates(spec, ws) ==
    {c \in (spec.start..spec.end) \X (spec.min_span..spec.max_span)
               \X (0..(spec.max_span - spec.min_span)) :
        /\ c[3] <= spec.max_span - c[2]
        /\ spec.pos - 1 + c[3] + c[2] <= Len(ws[c[1]])}

\* c comes before d: word index, then span length, then offset
Before(c, d) ==
    \/ c[1] < d[1]
    \/ c[1] = d[1] /\ c[2] < d[2]
    \/ c[1] = d[1] /\ c[2] = d[2] /\ c[3] < d[3]

\* the line of candidate c: the words joined by single spaces
RefLine(spec, ws, cand) ==
    Join([w \in 1..Len(ws) |->
             IF w = cand[1]
             THEN RefWord(spec, ws[w], spec.pos - 1 + cand[3], cand[2])
             ELSE ws[w]])

(***************************************************************************)
(* C11, amended: a call of apply_to_line that returns gives, in order of   *)
(* word index, then span length, then offset, one line per candidate whose *)
(* span fits in the word: the words of the line joined by single spaces,   *)
(* with exactly the characters at [pos-1+offset, pos-1+offset+L) of word   *)
(* wi (from the front for '^', from the back for '$') uppercased; every    *)
(* changed character lies in the window of max characters starting at pos. *)
(***************************************************************************)
C11_VariantsInOrder ==
    (MorphCalled /\ ~call.raised) =>
        LET ws == RefWords(call.line)
            cs == Candidates(call.spec, ws)
        IN /\ Len(call.results) = Cardinality(cs)
           /\ \A x \in cs :
                 call.results[Cardinality({y \in cs : Before(y, x)}) + 1]
                     = RefLine(call.spec, ws, x)
           /\ \A k \in DOMAIN call.results :
                 LET rw == RefWords(call.results[k]) IN
                 /\ Len(rw) = Len(ws)
                 /\ \A w \in DOMAIN ws :
                       /\ Len(rw[w]) = Len(ws[w])
                       /\ \A i \in DOMAIN ws[w] :
                             rw[w][i] # ws[w][i] =>
                                 /\ w \in call.spec.start..call.spec.end
                                 /\ call.spec.pos - 1 <= FromDir(call.spec, ws[w], i)
                                 /\ FromDir(call.spec, ws[w], i)
                                        < call.spec.pos - 1 + call.spec.max_span

(***************************************************************************)
(* C11 as claimed: moreover each returned line is the given line with      *)
(* every other character unchanged.                                        *)
(***************************************************************************)
C11_LineOtherwiseUnchanged ==
    /\ C11_VariantsInOrder
    /\ (MorphCalled /\ ~call.raised) =>
          \A k \in DOMAIN call.results :
              /\ Len(call.results[k]) = Len(call.line)
              /\ \A i \in DOMAIN call.line :
                    call.results[k][i] \in {call.line[i], Upper(call.line[i])}

\* w1-2$1{1-2} on "a  bcd": the spans that run past the first word are
\* omitted
C11_Witness ==
    /\ MorphCalled
    /\ call.spec = MkSpec(1, 2, "$", 1, 1, 2)
    /\ call.line = <<"a", " ", " ", "b", "c", "d">>
    /\ ~call.raised
    /\ call.results = <<<<"A", " ", "b", "c", "d">>, <<"a", " ", "b", "c", "D">>,
                        <<"a", " ", "b", "C", "d">>, <<"a", " ", "b", "C", "D">>>>

(***************************************************************************)
(* C12 as claimed: apply_to_line raises ValueError whenever the word range *)
(* start-end is not inside 1..(number of words), or pos is not inside      *)
(* 1..len(word) for some word of the range; a call that raised returned    *)
(* no variant and printed none, and main goes on to the end of its input.  *)
(***************************************************************************)
C12_RaisesWhenOutOfRange ==
    /\ MorphCalled =>
          LET ws == RefWords(call.line)
              n == Len(ws)
              inside == call.spec.start \in 1..n /\ call.spec.end \in 1..n
          IN /\ ~inside => call.raised
             /\ (inside /\ \E w \in call.spec.start..call.spec.end :
                               call.spec.pos \notin 1..Len(ws[w]))
                    => call.raised
             /\ call.raised => call.results = <<>>
    /\ pc = "done" => (line_no = Len(stdin) + 1 /\ exc = "")

\* What the code does: it raises exactly when start < 1, or end exceeds
\* the number of words, or pos is outside some word of start..end; a range
\* with start > end selects no word and returns the empty list.  A call
\* that raises adds nothing to stdout and one line to stderr.
ApplyRaisesExactly ==
    /\ MorphCalled =>
          LET ws == RefWords(call.line)
              n == Len(ws)
          IN /\ call.raised <=>
                    \/ call.spec.start < 1
                    \/ call.spec.end > n
                    \/ \E w \in call.spec.start..call.spec.end :
                           call.spec.pos \notin 1..Len(ws[w])
             /\ call.raised => call.results = <<>>
    /\ pc = "done" => (line_no = Len(stdin) + 1 /\ exc = "")

\* a call that raised after it had built variants for an earlier word
RaisedAfterBuilding == MorphCalled /\ call.raised /\ call.built # <<>>

\* a raising call prints nothing, whatever it had built, and main goes on
MainGoesOn ==
    [][(call' # call /\ call'.raised) =>
           /\ stdout' = stdout
           /\ stderr' = Append(stderr, "Error: ValueError")
           /\ pc' = "run"
           /\ <<line_no', spec_no'>> # <<line_no, spec_no>>]_vars

(***************************************************************************)
(* Reference notions for the State-object claims                           *)
(***************************************************************************)
\* the worklists of the running calls: each call's results and new_results
Worklists ==
    {frames[n].results : n \in DOMAIN frames}
        \cup {frames[n].new_results : n \in DOMAIN frames}

\* the State objects that are in some worklist, or were returned
Placed ==
    UNION {{w[n].st : n \in DOMAIN w} : w \in Worklists}
        \cup {exps[n].st : n \in DOMAIN exps}

\* digit history and cursor of State id, now
Seen(id) == View(heap, lists, id)

\* q is p with items added at the end
IsPrefix(p, q) == Len(p) <= Len(q) /\ SubSeq(q, 1, Len(p)) = p

(***************************************************************************)
(* C13: at every step of expand_elements, recursive calls included, no two *)
(* entries of a worklist hold the same State object and no two State       *)
(* objects hold the same digit list; no step changes the digit history or  *)
(* the cursor of a State object that existed before the step (the caller's *)
(* State and every State in a worklist): appends and increments go to      *)
(* objects created in that step.                                           *)
(***************************************************************************)
C13_NoSharedState ==
    /\ [](\A w \in Worklists :
             \A m, n \in DOMAIN w : m # n => w[m].st # w[n].st)
    /\ [](\A a, b \in DOMAIN heap : a # b => heap[a].digits # heap[b].digits)
    /\ [](Placed \subseteq DOMAIN heap)
    /\ [][\A id \in DOMAIN heap :
             /\ id \in DOMAIN heap'
             /\ View(heap', lists', id) = Seen(id)]_vars

\* inside the group of "{?d}": ten sibling branches, each with its own
\* State and its own digit, and the caller's State still without digits
C13_Witness ==
    /\ pc = "expand"
    /\ mask = <<"{", "?", "d", "}">>
    /\ Len(frames) = 2
    /\ Len(Top.new_results) = 10
    /\ \A n \in 1..10 : Seen(Top.new_results[n].st).digits = <<DigitChars[n]>>
    /\ Seen(frames[1].results[1].st).digits = <<>>

(***************************************************************************)
(* Steps of the expansion, as seen from outside                            *)
(***************************************************************************)
\* this step processed one partial result of the innermost call
EntryProcessed ==
    /\ pc = "expand" /\ pc' = "expand"
    /\ Len(frames') = Len(frames)
    /\ frames'[Len(frames')].k = Top.k + 1

\* this step returned a group's expansion to the calling element
GroupReturned ==
    /\ pc = "expand"
    /\ Len(frames') = Len(frames) - 1
    /\ Len(frames') >= 1

\* the entries the step added to the worklist new_results of frame n
AddedTo(n) ==
    SubSeq(frames'[n].new_results, Len(frames[n].new_results) + 1,
           Len(frames'[n].new_results))

\* digit history and cursor of State id after the step
SeenAfter(id) == View(heap', lists', id)

C15_PruningAllOrNothing ==
    /\ \A w \in Worklists :
          \A m, n \in DOMAIN w :
              /\ Len(Seen(w[m].st).digits) = Len(Seen(w[n].st).digits)
              /\ Seen(w[m].st).next_ref = Seen(w[n].st).next_ref
              /\ Len(w[m].out) = Len(w[n].out)
    /\ pc = "done" =>
          /\ Len(exps) \in {0, Pow10(DigitSlots(parse_mask(mask).elems))}
          /\ \A m, n \in DOMAIN exps : Len(exps[m].out) = Len(exps[n].out)
    /\ pc = "raised" => exc = "ValueError"

\* "?d?^?^": the second back-reference has dropped all ten branches
C15_Witness ==
    /\ pc = "expand"
    /\ mask = <<"?", "d", "?", "^", "?", "^">>
    /\ Top.i = 3
    /\ Len(Top.results) = 10
    /\ Top.k = 11
    /\ Top.new_results = <<>>

=============================================================================
